---- MODULE Spec2Model ----
(***************************************************************************)
(* A model of lyrics.py: the collector (Genius search API -> hit files),   *)
(* the scraper (hit files -> song pages -> per-artist word histograms) and *)
(* the aggregator (artist histograms -> genre histograms and top-100       *)
(* summaries).                                                             *)
(*                                                                         *)
(* Text is a sequence of one-character strings, a word is a string, and a  *)
(* dict is the sequence of its <<key, value>> items in insertion order     *)
(* (the order Python dicts, Counters and json keep).                       *)
(***************************************************************************)
EXTENDS Integers, Sequences, FiniteSets, TLC

(***************************************************************************)
(* Program constants.                                                      *)
(***************************************************************************)
\* GENRES (line 45)
GENRES == <<"metal", "rap", "pop">>

\* search: range(1,6) asks for pages 1..5 (line 111)
LAST_PAGE == 5

\* store_results: most_common(100) (lines 225 and 242)
TOP_N == 100

(***************************************************************************)
(* Text: str.lower, re.sub(r'\[.*?\]', '', .), str.translate deleting      *)
(* string.punctuation, str.split.                                          *)
(***************************************************************************)
ascii_uppercase ==
  <<"A","B","C","D","E","F","G","H","I","J","K","L","M",
    "N","O","P","Q","R","S","T","U","V","W","X","Y","Z">>

ascii_lowercase ==
  <<"a","b","c","d","e","f","g","h","i","j","k","l","m",
    "n","o","p","q","r","s","t","u","v","w","x","y","z">>

\* string.punctuation (all of it but the grave accent, which no TLA+ string
\* can hold and no text of the model contains)
punctuation ==
  {"!", "\"", "#", "$", "%", "&", "'", "(", ")", "*", "+", ",", "-", ".", "/",
   ":", ";", "<", "=", ">", "?", "@", "[", "\\", "]", "^", "_", "{", "|",
   "}", "~"}

\* the characters str.split() splits at
whitespace == {" ", "\t", "\n", "\r", "\f"}

\* str.lower on one character
lower_char(c) ==
  IF \E k \in DOMAIN ascii_uppercase : ascii_uppercase[k] = c
  THEN ascii_lowercase[CHOOSE k \in DOMAIN ascii_uppercase : ascii_uppercase[k] = c]
  ELSE c

\* str.lower
lower(text) == [k \in DOMAIN text |-> lower_char(text[k])]

\* Where the match of \[.*?\] that starts at the head of text ends (0: no
\* match): at the first "]", unless a line break comes before it, which "."
\* does not match.
bracket_end(text) ==
  LET closes == {j \in 2..Len(text) : text[j] = "]"}
      first  == CHOOSE j \in closes : \A k \in closes : j <= k
  IN  IF text = <<>> \/ Head(text) # "[" \/ closes = {} THEN 0
      ELSE IF \E k \in 2..(first - 1) : text[k] = "\n" THEN 0
      ELSE first

\* re.sub(r'\[.*?\]', '', text): every leftmost match is deleted
RECURSIVE sub_brackets(_)
sub_brackets(text) ==
  IF text = <<>> THEN <<>>
  ELSE IF bracket_end(text) > 0
       THEN sub_brackets(SubSeq(text, bracket_end(text) + 1, Len(text)))
       ELSE <<Head(text)>> \o sub_brackets(Tail(text))

\* text.translate(str.maketrans('', '', string.punctuation))
strip_punctuation(text) == SelectSeq(text, LAMBDA c : c \notin punctuation)

\* str.split(): the maximal runs of non-whitespace characters, as words
RECURSIVE split_from(_, _, _)
split_from(text, word, words) ==
  IF text = <<>>
  THEN IF word = "" THEN words ELSE Append(words, word)
  ELSE IF Head(text) \in whitespace
       THEN split_from(Tail(text), "", IF word = "" THEN words ELSE Append(words, word))
       ELSE split_from(Tail(text), word \o Head(text), words)

split(text) == split_from(text, "", <<>>)

\* parse_lyrics, lines 192-194: the words of a lyrics container's text
lyric_words(text) == split(strip_punctuation(sub_brackets(lower(text))))

\* set(...) of line 195
AsSet(seq) == {seq[k] : k \in DOMAIN seq}

\* parse_lyrics, line 195
lyric_set(text) == AsSet(lyric_words(text))

(***************************************************************************)
(* remove_common_words.  Line 351 ends 'youll' with no comma, so Python    *)
(* joins it with the 'yours' of line 352 into one literal.                 *)
(***************************************************************************)
stop_words == <<
  "a", "about", "above", "across", "after", "afterwards", "again", "against", "all", "almost", "alone", "along",
  "already", "also", "although", "always", "am", "among", "amongst", "amoungst", "amount", "an", "and", "another",
  "any", "anyhow", "anyone", "anything", "anyway", "anywhere", "are", "around", "as", "at", "back", "be", "became",
  "because", "become", "becomes", "becoming", "been", "before", "beforehand", "behind", "being", "below",
  "beside", "besides", "between", "beyond", "bill", "both", "bottom", "but", "by", "call", "can", "cannot", "cant",
  "co", "computer", "con", "could", "couldnt", "cry", "de", "describe", "detail", "did", "do", "done", "dont", "down", "due",
  "during", "each", "eg", "eight", "either", "eleven", "else", "elsewhere", "empty", "enough", "etc", "even", "ever",
  "every", "everyone", "everything", "everywhere", "except", "few", "fifteen", "fifty", "fill", "find", "fire", "first",
  "five", "for", "former", "formerly", "forty", "found", "four", "from", "front", "full", "further", "get", "give",
  "go", "had", "has", "hasnt", "have", "he", "hence", "her", "here", "hereafter", "hereby", "herein", "hereupon", "hers",
  "herself", "him", "himself", "his", "how", "however", "hundred", "i", "ie", "if", "ill", "in", "inc", "indeed",
  "interest", "into", "im", "is", "it", "its", "itself", "keep", "last", "latter", "latterly", "least", "less", "like", "ltd", "made",
  "many", "may", "me", "meanwhile", "might", "mill", "mine", "more", "moreover", "most", "mostly", "move", "much",
  "must", "my", "myself", "name", "namely", "neither", "never", "nevertheless", "next", "nine", "no", "nobody", "none",
  "noone", "nor", "not", "nothing", "now", "nowhere", "of", "off", "often", "on", "once", "one", "only", "onto", "or",
  "other", "others", "otherwise", "our", "ours", "ourselves", "out", "over", "own", "part", "per", "perhaps", "please",
  "put", "rather", "re", "s", "same", "see", "seem", "seemed", "seeming", "seems", "serious", "several", "she", "should",
  "show", "side", "since", "sincere", "six", "sixty", "so", "some", "somehow", "someone", "something", "sometime",
  "sometimes", "somewhere", "still", "such", "system", "take", "ten", "than", "that", "thats", "the", "their", "them", "themselves",
  "then", "thence", "there", "theres", "thereafter", "thereby", "therefore", "therein", "thereupon", "these", "they",
  "thick", "thin", "third", "this", "those", "though", "three", "three", "through", "throughout", "thru", "thus", "to",
  "together", "too", "top", "toward", "towards", "twelve", "twenty", "two", "un", "under", "until", "up", "upon",
  "us", "very", "via", "was", "we", "well", "were", "what", "whatever", "when", "whence", "whenever", "where",
  "whereafter", "whereas", "whereby", "wherein", "whereupon", "wherever", "whether", "which", "while", "whither", "who",
  "whoever", "whole", "whom", "whose", "why", "will", "with", "within", "without", "would", "yet", "you", "your", "youre", "youll" \o
  "yours", "yourself", "yourselves" >>

\* w in stop_words
in_stop_words(w) == w \in AsSet(stop_words)

\* remove_common_words, line 354
remove_common_words(word_list) ==
  SelectSeq(word_list, LAMBDA w : ~in_stop_words(w))

(***************************************************************************)
(* Dicts and Counters: sequences of <<key, value>> items, in insertion     *)
(* order.                                                                  *)
(***************************************************************************)
\* the keys of a dict
keys(d) == {d[k][1] : k \in DOMAIN d}

\* Counter.__getitem__: a missing key counts 0
count_of(d, key) ==
  IF key \in keys(d) THEN d[CHOOSE k \in DOMAIN d : d[k][1] = key][2] ELSE 0

\* d[key] = value: in place for a key of d, at the end for a new key
set_item(d, key, value) ==
  IF key \in keys(d)
  THEN [d EXCEPT ![CHOOSE k \in DOMAIN d : d[k][1] = key] = <<key, value>>]
  ELSE Append(d, <<key, value>>)

\* add_item with the else branch of line 265 lost: a new key is dropped
add_item_known_only(source, key, val) ==
  IF key \in keys(source)
  THEN set_item(source, key, count_of(source, key) + val)
  ELSE source

\* add_item with = for += in line 264
add_item_overwrite(source, key, val) == set_item(source, key, val)

\* one pass of add_dict's loop, lines 263-266
add_item(source, key, val) ==
  IF key \in keys(source)
  THEN set_item(source, key, count_of(source, key) + val)
  ELSE set_item(source, key, val)

\* add_dict as source.update(supplement)
add_dict_update(source, supplement) ==
  [k \in DOMAIN source |->
     IF source[k][1] \in keys(supplement)
     THEN <<source[k][1], count_of(supplement, source[k][1])>>
     ELSE source[k]]
  \o SelectSeq(supplement, LAMBDA item : item[1] \notin keys(source))

\* add_dict, lines 262-266; the value is source after the loop.  The keys of
\* supplement are taken in order: mid is source after the first half of them.
RECURSIVE add_dict(_, _)
add_dict(source, supplement) ==
  IF supplement = << >> THEN source
  ELSE IF Len(supplement) = 1
  THEN add_item(source, supplement[1][1], supplement[1][2])
  ELSE LET half == Len(supplement) \div 2
       IN  CHOOSE after \in
             {add_dict(mid, SubSeq(supplement, half + 1, Len(supplement))) :
                mid \in {add_dict(source, SubSeq(supplement, 1, half))}} : TRUE

\* the loop of add_counts_to_dict, lines 277-278, on a Counter
RECURSIVE count_words(_, _)
count_words(word_list, data_dict) ==
  IF word_list = <<>> THEN data_dict
  ELSE count_words(Tail(word_list),
                   set_item(data_dict, Head(word_list),
                            count_of(data_dict, Head(word_list)) + 1))

\* add_counts_to_dict, lines 276-278; data_set is the set in the order Python
\* iterates it, the value is data_dict after the call
add_counts_to_dict(data_set, data_dict) ==
  count_words(remove_common_words(data_set), data_dict)

\* The orders in which Python may iterate set(lyrics.split()): any order of
\* its elements, each once (lines 195 and 354).
iteration_orders(text) ==
  LET S == lyric_set(text)
  IN  {f \in [1..Cardinality(S) -> S] : \A j, k \in DOMAIN f : j # k => f[j] # f[k]}

\* most_common with its n ignored
most_common_all(d, n) ==
  LET before(j, k) == d[j][2] > d[k][2] \/ (d[j][2] = d[k][2] /\ j < k)
      rank == [k \in DOMAIN d |-> Cardinality({j \in DOMAIN d : before(j, k)})]
  IN  [r \in 1..Len(d) |-> d[CHOOSE k \in DOMAIN d : rank[k] = r - 1]]

\* Counter(d).most_common(n): the n items of highest count, highest first,
\* equal counts in insertion order
most_common(d, n) ==
  LET before(j, k) == d[j][2] > d[k][2] \/ (d[j][2] = d[k][2] /\ j < k)
      rank == [k \in DOMAIN d |-> Cardinality({j \in DOMAIN d : before(j, k)})]
      m    == IF n < Len(d) THEN n ELSE Len(d)
  IN  [r \in 1..m |-> d[CHOOSE k \in DOMAIN d : rank[k] = r - 1]]

\* list.reverse left out
reverse_lost(list) == list

\* list.reverse
reverse(list) == [k \in DOMAIN list |-> list[Len(list) + 1 - k]]

\* store_results, lines 225-229 and 242-246: the 'data' and 'uniques' of a
\* summary entry
words_and_counts(counts) == reverse(most_common(counts, TOP_N))

uniques(counts) == Len(counts)

(***************************************************************************)
(* The inputs: artist_list.json, what the Genius search API answers and    *)
(* the text of the lyrics container of each song page.                     *)
(***************************************************************************)
MaxRuns == 2

Dio == <<"D", "i", "o">>

Korn == <<"K", "o", "r", "n">>

\* The artist lists a behaviour may start from: artist_list.json, read by
\* read_artists_json.
ArtistLists ==
  { << [artist |-> Dio, genre |-> "metal"], [artist |-> Korn, genre |-> "metal"] >>,
    << [artist |-> Korn, genre |-> "metal"], [artist |-> Dio, genre |-> "pop"] >> }

\* response['response']['hits'] of a search for term, page by page; of a hit,
\* result.primary_artist.name and result.url
api_hits(term, page) ==
  IF term = Dio /\ page = 1
  THEN << [name |-> <<"D", "i", "o">>, url |-> "dio/1"],
          [name |-> <<"D", "I", "O">>, url |-> "dio/2"],
          [name |-> <<"D", "i", "o", "n">>, url |-> "dion/1"] >>
  ELSE IF term = Dio /\ page = 2
  THEN << [name |-> <<"d", "i", "o">>, url |-> "dio/3"] >>
  ELSE IF term = Korn /\ page = 1
  THEN << [name |-> <<"K", "o", "R", "n">>, url |-> "korn/1"],
          [name |-> <<"K", "o", "r", "n">>, url |-> "korn/2"] >>
  ELSE IF term = Korn /\ page = 2
  THEN << [name |-> <<"D", "i", "o">>, url |-> "dio/1"] >>
  ELSE << >>

\* html.find('div', class_='lyrics').get_text() of a song page
page_text(url) ==
  CASE url = "dio/1"  -> <<"O","h"," ","o","h",","," ","O","H","!">>
    [] url = "dio/2"  -> <<"[","I","n","]","\n","Y","o","u","'","l","l"," ","r","o","c","k">>
    [] url = "dio/3"  -> <<"T","h","e"," ","R","o","c","k",","," ","r","o","c","k">>
    [] url = "korn/1" -> <<"[","a","\n","b","]"," ","r","o","c","k">>
    [] url = "korn/2" -> <<"y","o","u","r","s"," ","l","a","\t","L","a">>
    [] OTHER          -> <<"l","a">>

(***************************************************************************)
(* The state.                                                              *)
(***************************************************************************)
VARIABLES
  artists,             \* artists['artists'], as main read it
  fs,                  \* Search Response JSON: <<genre, artist>> -> file number -> hits
  artist_analysis,     \* artist_analysis.json: << >> or <<its content>>
  genre_analysis,      \* genre_analysis.json
  artist_summary,      \* artist_summary.json
  genre_summary,       \* genre_summary.json
  ARTIST_RESULTS,      \* the global: artist -> histogram
  pc,                  \* where main is
  run,                 \* which run of the script this is
  i,                   \* the index of the loop over artists['artists']
  artist_lyric_count,  \* parse_all_song_data's Counter of the artist at i
  todo,                \* the files of glob's list not parsed yet
  body,                \* the hits of the open file not parsed yet
  songs_done,          \* song pages parsed into artist_lyric_count
  loaded,              \* store_results' own ARTIST_RESULTS
  genre_counts_dict,   \* store_results' genre -> histogram
  artist_list,         \* store_results' list of artist summaries
  io,                  \* the requests of the last step, each with its outcome
  answered,            \* history: the directories of the searches ever answered
  error                \* the exception that ended the run, "" if none

vars == <<artists, fs, artist_analysis, genre_analysis, artist_summary,
          genre_summary, ARTIST_RESULTS, pc, run, i, artist_lyric_count, todo,
          body, songs_done, loaded, genre_counts_dict, artist_list, io,
          answered, error>>

given == <<artists, answered>>

files == <<fs, artist_analysis, genre_analysis, artist_summary, genre_summary>>

scraper == <<artist_lyric_count, todo, body, songs_done>>

storer == <<loaded, genre_counts_dict, artist_list>>

\* the test of line 135 left out
isdir_never(tree, genre, artist) == FALSE

\* os.path.isdir(os.path.join(SEARCH_RESULTS_DIR, genre, artist)), line 135
isdir(tree, genre, artist) == <<genre, artist>> \in DOMAIN tree

\* save_json: makedirs, then file_name.json is written anew
save_json(tree, json_data, artist_name, genre, file_name) ==
  LET dir == <<genre, artist_name>>
      old == IF dir \in DOMAIN tree THEN tree[dir] ELSE << >>
  IN  (dir :> ((file_name :> json_data) @@ old)) @@ tree

\* search, lines 107-116: the responses of the pages that answered, in page
\* order; responds[page] is whether send_request got a response
search(term, responds) ==
  LET pages == SelectSeq([p \in 1..LAST_PAGE |-> p], LAMBDA p : responds[p])
  IN  [k \in DOMAIN pages |-> api_hits(term, pages[k])]

\* line 142: the hits whose primary artist is the artist searched for
filter_hits(hits, artist) ==
  SelectSeq(hits, LAMBDA h : lower(h.name) = lower(artist))

\* lines 139-144: result k is filtered and saved as k.json
RECURSIVE save_results(_, _, _, _)
save_results(tree, results, artist, k) ==
  IF k > Len(results) THEN tree
  ELSE save_results(save_json(tree, filter_hits(results[k], artist.artist),
                              artist.artist, artist.genre, k),
                    results, artist, k + 1)

\* the module's lines 49-53: the previous run's results, if any
load_artist_results(file) == IF file = << >> THEN << >> ELSE file[1]

Init ==
  /\ artists \in ArtistLists
  /\ fs = << >>
  /\ artist_analysis = << >>
  /\ genre_analysis = << >>
  /\ artist_summary = << >>
  /\ genre_summary = << >>
  /\ ARTIST_RESULTS = load_artist_results(artist_analysis)
  /\ pc = "collect"
  /\ run = 1
  /\ i = 1
  /\ artist_lyric_count = << >>
  /\ todo = {}
  /\ body = << >>
  /\ songs_done = 0
  /\ loaded = << >>
  /\ genre_counts_dict = << >>
  /\ artist_list = << >>
  /\ io = << >>
  /\ answered = {}
  /\ error = ""

(***************************************************************************)
(* collect_genius_song_data                                                *)
(***************************************************************************)
\* lines 132-135: the artist's directory exists, nothing is done
CollectSkip ==
  /\ pc = "collect" /\ i <= Len(artists)
  /\ isdir(fs, artists[i].genre, artists[i].artist)
  /\ i' = i + 1
  /\ io' = << >>
  /\ UNCHANGED <<given, files, ARTIST_RESULTS, pc, run, scraper, storer, error>>

\* lines 135-146: five pages are asked for, the answers are filtered and saved
CollectSearch ==
  /\ pc = "collect" /\ i <= Len(artists)
  /\ ~isdir(fs, artists[i].genre, artists[i].artist)
  /\ \E responds \in [1..LAST_PAGE -> BOOLEAN] :
       /\ fs' = save_results(fs, search(artists[i].artist, responds), artists[i], 1)
       /\ io' = [p \in 1..LAST_PAGE |->
                   [url |-> <<"search", artists[i].artist, p>>, ok |-> responds[p]]]
       /\ answered' = IF \E p \in 1..LAST_PAGE : responds[p]
                      THEN answered \cup {<<artists[i].genre, artists[i].artist>>}
                      ELSE answered
  /\ i' = i + 1
  /\ UNCHANGED <<artists, artist_analysis, genre_analysis, artist_summary,
                 genre_summary, ARTIST_RESULTS, pc, run, scraper, storer, error>>

\* main, line 398: on to parse_all_song_data
CollectDone ==
  /\ pc = "collect" /\ i > Len(artists)
  /\ pc' = "analysis"
  /\ i' = 1
  /\ io' = << >>
  /\ UNCHANGED <<given, files, ARTIST_RESULTS, run, scraper, storer, error>>

(***************************************************************************)
(* parse_all_song_data, parse_artist_data, parse_lyrics                    *)
(***************************************************************************)
\* the test of line 159 left out
has_results_never(results, artist) == FALSE

\* artist in ARTIST_RESULTS, line 159
has_results(results, artist) == artist \in DOMAIN results

\* line 159: the artist already has results
ParseSkip ==
  /\ pc = "analysis" /\ i <= Len(artists)
  /\ has_results(ARTIST_RESULTS, artists[i].artist)
  /\ i' = i + 1
  /\ io' = << >>
  /\ UNCHANGED <<given, files, ARTIST_RESULTS, pc, run, scraper, storer, error>>

\* glob.glob(<the artist's directory>/*.json), line 161
glob(tree, genre, artist) ==
  IF isdir(tree, genre, artist) THEN DOMAIN tree[<<genre, artist>>] ELSE {}

\* lines 159-162: a new Counter, and the artist's files
ParseBegin ==
  /\ pc = "analysis" /\ i <= Len(artists)
  /\ ~has_results(ARTIST_RESULTS, artists[i].artist)
  /\ artist_lyric_count' = << >>
  /\ todo' = glob(fs, artists[i].genre, artists[i].artist)
  /\ body' = << >>
  /\ songs_done' = 0
  /\ pc' = "parse"
  /\ io' = << >>
  /\ UNCHANGED <<given, files, ARTIST_RESULTS, run, i, storer, error>>

\* lines 168-169 and 185-188: the next file, in whatever order glob listed
\* them, is opened and its hits are read
ParseOpen ==
  /\ pc = "parse" /\ body = << >>
  /\ \E file \in todo :
       /\ body' = fs[<<artists[i].genre, artists[i].artist>>][file]
       /\ todo' = todo \ {file}
  /\ io' = << >>
  /\ UNCHANGED <<given, files, ARTIST_RESULTS, pc, run, i, artist_lyric_count,
                 songs_done, storer, error>>

\* lines 189-198, the page was fetched: its words are counted
ParseSong ==
  /\ pc = "parse" /\ body # << >>
  /\ \E data_set \in iteration_orders(page_text(Head(body).url)) :
       artist_lyric_count' = add_counts_to_dict(data_set, artist_lyric_count)
  /\ body' = Tail(body)
  /\ songs_done' = songs_done + 1
  /\ io' = << [url |-> Head(body).url, ok |-> TRUE] >>
  /\ UNCHANGED <<given, files, ARTIST_RESULTS, pc, run, i, todo, storer, error>>

\* lines 190-191, the fetch failed: send_request returned None, and
\* html('script') raises TypeError, which nothing catches
ParseSongFailed ==
  /\ pc = "parse" /\ body # << >>
  /\ io' = << [url |-> Head(body).url, ok |-> FALSE] >>
  /\ pc' = "crashed"
  /\ error' = "TypeError"
  /\ UNCHANGED <<given, files, ARTIST_RESULTS, run, i, scraper, storer>>

\* line 163: the artist's histogram joins ARTIST_RESULTS
ParseEnd ==
  /\ pc = "parse" /\ body = << >> /\ todo = {}
  /\ ARTIST_RESULTS' = (artists[i].artist :> artist_lyric_count) @@ ARTIST_RESULTS
  /\ i' = i + 1
  /\ pc' = "analysis"
  /\ io' = << >>
  /\ UNCHANGED <<given, files, run, scraper, storer, error>>

\* line 164, and main's line 404: the results are saved
ParseSave ==
  /\ pc = "analysis" /\ i > Len(artists)
  /\ artist_analysis' = <<ARTIST_RESULTS>>
  /\ pc' = "storage"
  /\ i' = 1
  /\ io' = << >>
  /\ UNCHANGED <<given, fs, genre_analysis, artist_summary, genre_summary,
                 ARTIST_RESULTS, run, scraper, storer, error>>

(***************************************************************************)
(* store_results                                                           *)
(***************************************************************************)
\* lines 211-219: empty genre histograms, and the saved results are read back
StoreBegin ==
  /\ pc = "storage"
  /\ genre_counts_dict' = [g \in AsSet(GENRES) |-> << >>]
  /\ loaded' = artist_analysis[1]
  /\ artist_list' = << >>
  /\ pc' = "store"
  /\ i' = 1
  /\ io' = << >>
  /\ UNCHANGED <<given, files, ARTIST_RESULTS, run, scraper, error>>

\* lines 220-230: one artist is merged into its genre and summarised
StoreArtist ==
  /\ pc = "store" /\ i <= Len(artists)
  /\ LET artist == artists[i]
         artist_counts == loaded[artist.artist]
     IN  /\ genre_counts_dict' =
               [genre_counts_dict EXCEPT ![artist.genre] = add_dict(@, artist_counts)]
         /\ artist_list' =
               Append(artist_list,
                      [title |-> artist.artist, genre |-> artist.genre,
                       data |-> words_and_counts(artist_counts),
                       uniques |-> uniques(artist_counts)])
  /\ i' = i + 1
  /\ io' = << >>
  /\ UNCHANGED <<given, files, ARTIST_RESULTS, pc, run, scraper, loaded, error>>

\* lines 232-250: the genre histograms and the two summaries are written
StoreFinish ==
  /\ pc = "store" /\ i > Len(artists)
  /\ genre_analysis' = <<genre_counts_dict>>
  /\ artist_summary' = <<artist_list>>
  /\ genre_summary' =
       << [k \in DOMAIN GENRES |->
             [title |-> GENRES[k],
              data |-> words_and_counts(genre_counts_dict[GENRES[k]]),
              uniques |-> uniques(genre_counts_dict[GENRES[k]])]] >>
  /\ pc' = "done"
  /\ io' = << >>
  /\ UNCHANGED <<given, fs, artist_analysis, ARTIST_RESULTS, run, i, scraper,
                 storer, error>>

(***************************************************************************)
(* The script is run again: the files stay, the memory does not.           *)
(***************************************************************************)
Restart ==
  /\ pc \in {"done", "crashed"} /\ run < MaxRuns
  /\ run' = run + 1
  /\ ARTIST_RESULTS' = load_artist_results(artist_analysis)
  /\ pc' = "collect"
  /\ i' = 1
  /\ artist_lyric_count' = << >>
  /\ todo' = {}
  /\ body' = << >>
  /\ songs_done' = 0
  /\ loaded' = << >>
  /\ genre_counts_dict' = << >>
  /\ artist_list' = << >>
  /\ io' = << >>
  /\ error' = ""
  /\ UNCHANGED <<given, files>>

Next ==
  \/ CollectSkip \/ CollectSearch \/ CollectDone
  \/ ParseSkip \/ ParseBegin \/ ParseOpen \/ ParseSong \/ ParseSongFailed
  \/ ParseEnd \/ ParseSave
  \/ StoreBegin \/ StoreArtist \/ StoreFinish
  \/ Restart

Spec == Init /\ [][Next]_vars

(***************************************************************************)
(* store_results on its own: main has reached line 404 with results of     *)
(* any shape in artist_analysis.json.                                      *)
(***************************************************************************)
MaxCount == 2

MaxWords == 102

Tool == <<"T", "o", "o", "l">>

StoreWords == {"rock", "la"}

\* every histogram over StoreWords with counts up to MaxCount, in every
\* insertion order
SmallHists ==
  {d \in UNION {[1..n -> StoreWords \X (1..MaxCount)] : n \in 0..Cardinality(StoreWords)} :
     \A j, k \in DOMAIN d : j # k => d[j][1] # d[k][1]}

\* the k-th word of a large histogram
word(k) == "x" \o ascii_lowercase[(k \div 26) + 1] \o ascii_lowercase[(k % 26) + 1]

\* a histogram of n words whose counts run through 1..5 in steps of m
big_hist(n, m) == [k \in 1..n |-> <<word(k), 1 + ((k * m) % 5)>>]

StoreArtistLists ==
  { << [artist |-> Dio, genre |-> "metal"], [artist |-> Korn, genre |-> "metal"],
       [artist |-> Tool, genre |-> "metal"] >>,
    << [artist |-> Tool, genre |-> "metal"], [artist |-> Korn, genre |-> "metal"],
       [artist |-> Dio, genre |-> "metal"] >>,
    << [artist |-> Korn, genre |-> "rap"], [artist |-> Dio, genre |-> "metal"],
       [artist |-> Tool, genre |-> "rap"] >> }

StoreResults ==
  {(Dio :> a) @@ (Korn :> b) @@ (Tool :> c) :
     a, b \in SmallHists, c \in {d \in SmallHists : Len(d) <= 1}}
  \cup
  {(Dio :> big_hist(n, m)) @@ (Korn :> big_hist(2 * m, 1)) @@ (Tool :> << >>) :
     n \in (TOP_N - 1)..MaxWords, m \in 1..3}

InitStore ==
  /\ artists \in StoreArtistLists
  /\ fs = << >>
  /\ artist_analysis \in {<<r>> : r \in StoreResults}
  /\ genre_analysis = << >>
  /\ artist_summary = << >>
  /\ genre_summary = << >>
  /\ ARTIST_RESULTS = load_artist_results(artist_analysis)
  /\ pc = "storage"
  /\ run = 1
  /\ i = 1
  /\ artist_lyric_count = << >>
  /\ todo = {}
  /\ body = << >>
  /\ songs_done = 0
  /\ loaded = << >>
  /\ genre_counts_dict = << >>
  /\ artist_list = << >>
  /\ io = << >>
  /\ answered = {}
  /\ error = ""

NextStore == StoreBegin \/ StoreArtist \/ StoreFinish

SpecStore == InitStore /\ [][NextStore]_vars

(***************************************************************************)
(* Properties of the aggregator, under SpecStore.                          *)
(***************************************************************************)
\* two dicts are equal, as Python compares them: the same keys with the same
\* values, in any order
DictEq(d, e) ==
  /\ keys(d) = keys(e)
  /\ \A key \in keys(d) : count_of(d, key) = count_of(e, key)

\* no key twice
Functional(d) == \A j, k \in DOMAIN d : j # k => d[j][1] # d[k][1]

\* d maps every word to a's count plus b's count
IsSum(d, a, b) ==
  /\ Functional(d)
  /\ keys(d) = keys(a) \cup keys(b)
  /\ \A key \in keys(d) : count_of(d, key) = count_of(a, key) + count_of(b, key)

\* C3: add_dict(A, B) maps every word to A's count plus B's count; merging A
\* then B into an empty histogram gives the same histogram as merging B then
\* A; (A merged with B) merged with C is A merged with (B merged with C); and
\* the supplements store_results merged are still what it read from the file.
C3_MergeIsSumCommutativeAssociative ==
  pc \in {"store", "done"} =>
    LET A == loaded[Dio]
        B == loaded[Korn]
        C == loaded[Tool]
    IN  /\ IsSum(add_dict(A, B), A, B)
        /\ DictEq(add_dict(add_dict(<< >>, A), B), add_dict(add_dict(<< >>, B), A))
        /\ DictEq(add_dict(add_dict(A, B), C), add_dict(A, add_dict(B, C)))
        /\ loaded = artist_analysis[1]

\* three artists were merged whose histograms share a word, with B holding a
\* word A lacks and A and B listing their words in different orders
C3_Witness ==
  /\ pc = "done"
  /\ keys(loaded[Dio]) \cap keys(loaded[Korn]) # {}
  /\ keys(loaded[Korn]) \ keys(loaded[Dio]) # {}
  /\ loaded[Tool] # << >>
  /\ add_dict(add_dict(<< >>, loaded[Dio]), loaded[Korn])
       # add_dict(add_dict(<< >>, loaded[Korn]), loaded[Dio])

\* the smaller of two numbers
Min(a, b) == IF a < b THEN a ELSE b

\* a summary's 'data' and 'uniques' fit the histogram they were made of
SummaryFits(entry, hist) ==
  /\ Len(entry.data) = Min(100, Cardinality(keys(hist)))
  /\ \A j \in DOMAIN entry.data :
       /\ entry.data[j][1] \in keys(hist)
       /\ entry.data[j][2] = count_of(hist, entry.data[j][1])
  /\ Functional(entry.data)
  /\ entry.uniques = Cardinality(keys(hist))

\* C5: every artist and genre entry store_results wrote has min(100, number
\* of distinct words) pairs in 'data', each a word of the histogram with its
\* count, no word twice, and 'uniques' is the number of distinct words.
C5_SummaryLength ==
  pc = "done" =>
    /\ Len(artist_summary[1]) = Len(artists)
    /\ \A k \in DOMAIN artists :
         SummaryFits(artist_summary[1][k], artist_analysis[1][artists[k].artist])
    /\ Len(genre_summary[1]) = Len(GENRES)
    /\ \A k \in DOMAIN GENRES :
         /\ genre_summary[1][k].title = GENRES[k]
         /\ SummaryFits(genre_summary[1][k], genre_analysis[1][GENRES[k]])

\* summaries were written of a histogram of more than 100 words, cut to 100,
\* and of a smaller one, kept whole
C5_Witness ==
  /\ pc = "done"
  /\ \E k \in DOMAIN artist_summary[1] :
       artist_summary[1][k].uniques > 100 /\ Len(artist_summary[1][k].data) = 100
  /\ \E k \in DOMAIN artist_summary[1] :
       /\ artist_summary[1][k].uniques \in 1..99
       /\ Len(artist_summary[1][k].data) = artist_summary[1][k].uniques
  /\ \E k \in DOMAIN genre_summary[1] :
       genre_summary[1][k].uniques > 100 /\ Len(genre_summary[1][k].data) = 100

\* the count, over the entries of the artist list up to k whose genre is
\* genre, of word in the stored histograms
RECURSIVE GenreTotal(_, _, _)
GenreTotal(genre, word_, k) ==
  IF k = 0 THEN 0
  ELSE GenreTotal(genre, word_, k - 1)
       + (IF artists[k].genre = genre
          THEN count_of(artist_analysis[1][artists[k].artist], word_) ELSE 0)

\* C8: after store_results every genre histogram maps every word to the sum
\* of the stored counts of the listed artists of that genre, whatever the
\* order of the list (the sum is over the entries, not their order); a genre
\* without artists has an empty histogram; the stored artist histograms are
\* as they were.
C8_GenreIsSumOfArtists ==
  pc = "done" =>
    /\ DOMAIN genre_analysis[1] = AsSet(GENRES)
    /\ \A genre \in AsSet(GENRES) :
         LET hist == genre_analysis[1][genre]
             all  == UNION {keys(artist_analysis[1][a]) : a \in DOMAIN artist_analysis[1]}
         IN  /\ Functional(hist)
             /\ keys(hist) \subseteq all
             /\ \A w \in all : count_of(hist, w) = GenreTotal(genre, w, Len(artists))
             /\ (\A k \in DOMAIN artists : artists[k].genre # genre) => hist = << >>
    /\ artist_analysis[1] = ARTIST_RESULTS
    /\ loaded = ARTIST_RESULTS

\* two artists of one genre sharing a word were merged, and a genre had no
\* artist
C8_Witness ==
  /\ pc = "done"
  /\ \E j, k \in DOMAIN artists :
       /\ j < k /\ artists[j].genre = artists[k].genre
       /\ keys(loaded[artists[j].artist]) \cap keys(loaded[artists[k].artist]) # {}
       /\ \E w \in keys(loaded[artists[k].artist]) :
            count_of(genre_analysis[1][artists[j].genre], w)
              > count_of(loaded[artists[k].artist], w)
  /\ genre_analysis[1]["pop"] = << >>

\* the 'data' list is in ascending order of count and no word left out of it
\* has a higher count than a word in it
TopAscending(entry, hist) ==
  /\ \A j \in DOMAIN entry.data :
       j < Len(entry.data) => entry.data[j][2] <= entry.data[j + 1][2]
  /\ \A w \in keys(hist) \ {entry.data[j][1] : j \in DOMAIN entry.data} :
       \A j \in DOMAIN entry.data : count_of(hist, w) <= entry.data[j][2]

\* C9: every 'data' list store_results wrote is sorted ascending by count and
\* holds the most common words of its histogram.
C9_SummaryOrder ==
  pc = "done" =>
    /\ \A k \in DOMAIN artists :
         TopAscending(artist_summary[1][k], artist_analysis[1][artists[k].artist])
    /\ \A k \in DOMAIN GENRES :
         TopAscending(genre_summary[1][k], genre_analysis[1][GENRES[k]])

\* a summary was cut to 100 words of several counts, leaving words out
C9_Witness ==
  /\ pc = "done"
  /\ \E k \in DOMAIN artist_summary[1] :
       LET data == artist_summary[1][k].data
       IN  /\ artist_summary[1][k].uniques > Len(data)
           /\ Len(data) = 100
           /\ data[1][2] < data[100][2]

(***************************************************************************)
(* Properties of the collector and the scraper, under Spec.                *)
(***************************************************************************)
\* the words written in the list of remove_common_words, line by line: each
\* literal on its own, 'youll' and 'yours' included
WrittenStopWords ==
  (AsSet(stop_words) \ {"youll" \o "yours"}) \cup {"youll", "yours"}

\* every histogram of the state: the Counter being filled, the results in
\* memory and on file, the genre histograms in memory and on file
Histograms ==
  {artist_lyric_count}
  \cup {ARTIST_RESULTS[a] : a \in DOMAIN ARTIST_RESULTS}
  \cup {loaded[a] : a \in DOMAIN loaded}
  \cup {genre_counts_dict[g] : g \in DOMAIN genre_counts_dict}
  \cup UNION {{f[a] : a \in DOMAIN f} : f \in AsSet(artist_analysis)}
  \cup UNION {{f[g] : g \in DOMAIN f} : f \in AsSet(genre_analysis)}

\* C1: no key of an artist histogram, of a genre histogram or of a summary is
\* a word written in the stop-word list.
C1_NoStopWordCounted ==
  /\ \A hist \in Histograms : keys(hist) \cap WrittenStopWords = {}
  /\ \A f \in AsSet(artist_summary) \cup AsSet(genre_summary) :
       \A k \in DOMAIN f : \A j \in DOMAIN f[k].data :
         f[k].data[j][1] \notin WrittenStopWords

\* the step parses a song page, and the count of every word goes up by 1 if
\* the word is in the page's normalized lyrics and not in stop, by 0 otherwise
CountedOnce(stop) ==
  songs_done' = songs_done + 1 =>
    LET words == lyric_set(page_text(Head(body).url))
    IN  \A w \in keys(artist_lyric_count) \cup keys(artist_lyric_count') \cup words :
          count_of(artist_lyric_count', w)
            = count_of(artist_lyric_count, w)
              + (IF w \in words /\ w \notin stop THEN 1 ELSE 0)

\* no count exceeds the number of song pages parsed for the artist
AtMostSongs ==
  \A w \in keys(artist_lyric_count) : count_of(artist_lyric_count, w) <= songs_done

\* C2: a parsed song page raises the count of each word by 1 if the word is
\* in the page's normalized lyrics and is not a stop word, by 0 otherwise,
\* however often the word occurs; so no count exceeds the number of songs
\* parsed for the artist.
C2_OncePerSong ==
  [][CountedOnce(WrittenStopWords) /\ AtMostSongs']_vars

\* What holds of a parsed page with the stop words taken as the list the code
\* builds, in which 'youll' and 'yours' are one element: each word is counted
\* once per song.
OncePerSongAsFiltered ==
  [][CountedOnce(AsSet(stop_words)) /\ AtMostSongs']_vars

\* C4: a song page whose fetch failed is skipped: parse_lyrics goes on with
\* the next song of the file, the histogram as it was.
C4_FailedFetchSkipsSong ==
  [][ (pc = "parse" /\ io' # << >> /\ ~io'[1].ok) =>
        /\ pc' = "parse"
        /\ error' = ""
        /\ artist_lyric_count' = artist_lyric_count
        /\ body' = Tail(body)
        /\ todo' = todo
    ]_vars

\* the pages among those of a step's requests that were answered, in order
OkPages(log) == SelectSeq([p \in DOMAIN log |-> p], LAMBDA p : log[p].ok)

\* C6: an artist whose directory exists is skipped, no request sent and no
\* file changed; for an artist without one, pages 1..5 are asked for and the
\* answers are written, filtered, as files 1..k in page order; an artist a
\* search for whom was ever answered is never searched for again.
C6_CollectorMemoization ==
  [][ (pc = "collect" /\ i <= Len(artists)) =>
        LET a   == artists[i]
            dir == <<a.genre, a.artist>>
            ok  == OkPages(io')
        IN  /\ dir \in DOMAIN fs => io' = << >> /\ files' = files
            /\ dir \in answered => io' = << >> /\ files' = files
            /\ dir \notin DOMAIN fs =>
                 /\ Len(io') = 5
                 /\ \A p \in 1..5 : io'[p].url = <<"search", a.artist, p>>
                 /\ ok = << >> => fs' = fs
                 /\ ok # << >> =>
                      /\ DOMAIN fs' = DOMAIN fs \cup {dir}
                      /\ \A d \in DOMAIN fs : fs'[d] = fs[d]
                      /\ DOMAIN fs'[dir] = 1..Len(ok)
                      /\ \A k \in 1..Len(ok) :
                           fs'[dir][k] = filter_hits(api_hits(a.artist, ok[k]), a.artist)
                 /\ answered' = IF ok # << >> THEN answered \cup {dir} ELSE answered
                 /\ <<artist_analysis, genre_analysis, artist_summary, genre_summary>>'
                      = <<artist_analysis, genre_analysis, artist_summary, genre_summary>>
    ]_vars

\* in the second run the first artist, two of whose five pages were answered
\* in the first run, was skipped
C6_Witness ==
  /\ run = 2 /\ pc = "collect" /\ i = 2 /\ io = << >>
  /\ <<artists[1].genre, artists[1].artist>> \in answered
  /\ DOMAIN fs[<<artists[1].genre, artists[1].artist>>] = 1..2

\* every count of a histogram is a positive integer
Positive(hist) == \A k \in DOMAIN hist : hist[k][2] \in Nat /\ hist[k][2] >= 1

\* no key of hist is lost and no count lowered in later
Grown(hist, later) ==
  \A key \in keys(hist) : key \in keys(later) /\ count_of(later, key) >= count_of(hist, key)

\* C7: every count of every histogram is an integer >= 1, and within a run no
\* step removes a key or lowers a count of an artist's histogram or of a
\* genre's.
C7_CountsPositiveAndMonotone ==
  [][ /\ \A hist \in Histograms : Positive(hist)
      /\ \A hist \in Histograms' : Positive(hist)
      /\ run' = run =>
           /\ \A a \in DOMAIN ARTIST_RESULTS :
                a \in DOMAIN ARTIST_RESULTS' /\ Grown(ARTIST_RESULTS[a], ARTIST_RESULTS'[a])
           /\ pc = "parse" => Grown(artist_lyric_count, artist_lyric_count')
           /\ pc = "store" =>
                \A g \in DOMAIN genre_counts_dict :
                  Grown(genre_counts_dict[g], genre_counts_dict'[g])
    ]_vars

\* an artist's count of a word has reached 2 and a genre's, over two artists,
\* 3
C7_Witness ==
  /\ pc = "done"
  /\ \E a \in DOMAIN ARTIST_RESULTS : count_of(ARTIST_RESULTS[a], "rock") = 2
  /\ count_of(genre_analysis[1]["metal"], "rock") = 3

\* how many of the hits in the files of directory dir are songs with word w,
\* not a word of stop_words, in their lyrics
OwnCount(dir, w) ==
  IF dir \notin DOMAIN fs \/ in_stop_words(w) THEN 0
  ELSE Cardinality({pos \in UNION {{<<f, j>> : j \in DOMAIN fs[dir][f]} : f \in DOMAIN fs[dir]} :
                      w \in lyric_set(page_text(fs[dir][pos[1]][pos[2]].url))})

\* every word of the songs hit in the files of directory dir
OwnWords(dir) ==
  IF dir \notin DOMAIN fs THEN {}
  ELSE UNION {UNION {lyric_set(page_text(fs[dir][f][j].url)) : j \in DOMAIN fs[dir][f]} :
                f \in DOMAIN fs[dir]}

====
